---- MODULE Spec2Model ----
(***************************************************************************)
(* Model of sync_snippets.py: the two snippet stores (VS Code and Neovim), *)
(* the inventory built once per run, the two copy passes and the manifest  *)
(* (package.json) build, as run by the __main__ block.                     *)
(*                                                                         *)
(* A file is a record [enc, lines]: enc tells which decoders accept its    *)
(* bytes, lines is the text as readlines() yields it.  A line is a         *)
(* sequence of lexemes (whitespace, the comment marker, the "scope": key,  *)
(* a double quote, a comma, words); the regular expressions and the string *)
(* methods of the source are computed on these sequences.                  *)
(***************************************************************************)
EXTENDS Integers, Sequences, FiniteSets, TLC

\* Number of distinct snippet file names the two stores may hold.
NumFiles == 2
\* Number of successive invocations of the program that are followed.
MaxRuns == 2

Names == 1..NumFiles

----------------------------------------------------------------------------
(* Lexemes of a line of text *)
SP == " "
NL == "\n"
CM == "//"
QUOTE == "\""
COMMA == ","
SCOPE_KEY == "\"scope\":"
LBRACE == "{"
RBRACE == "}"

\* \s of the regular expressions, and what str.strip() removes
IsSpace(c) == c \in {SP, NL}

----------------------------------------------------------------------------
(* Files *)
NoFile == [enc |-> "none", lines |-> <<>>]
Exists(f) == f.enc # "none"

\* A VS Code style file: an indented comment and a two-token scope, in bytes
\* that are not UTF-8 but decode under cp932.
Commented ==
  [enc |-> "cp932",
   lines |-> << <<LBRACE, NL>>,
                <<SP, CM, SP, "x", NL>>,
                <<SP, SCOPE_KEY, SP, QUOTE, "bat", COMMA, SP, "powershell", QUOTE, NL>>,
                <<RBRACE, NL>> >>]
\* Three entries on one line: scope sh, scope shellscript, no scope (UTF-8).
OneLine ==
  [enc |-> "utf8",
   lines |-> << <<LBRACE, SCOPE_KEY, QUOTE, "sh", QUOTE, RBRACE,
                  LBRACE, SCOPE_KEY, QUOTE, "shellscript", QUOTE, RBRACE,
                  LBRACE, RBRACE, NL>> >>]
\* A comment that starts in the first column (UTF-8).
FirstColumn ==
  [enc |-> "utf8",
   lines |-> << <<LBRACE, NL>>,
                <<CM, SP, "x", NL>>,
                <<SP, SCOPE_KEY, SP, QUOTE, "python", QUOTE, NL>>,
                <<RBRACE, NL>> >>]
\* Bytes that decode under neither UTF-8 nor cp932.
Undecodable == [enc |-> "bad", lines |-> <<>>]

Files == {Commented, OneLine, FirstColumn, Undecodable}

----------------------------------------------------------------------------
(* String helpers *)
\* The order in which a Python set is iterated follows the hashes of its
\* members, and the hash of a string changes with the hash seed of the
\* process.  Two seeds are followed: they iterate every set in opposite orders.
HashSeeds == {"seed_a", "seed_b"}

\* the lexemes that occur in the files and in the translation table
Alphabet ==
  <<SP, NL, CM, QUOTE, COMMA, SCOPE_KEY, LBRACE, RBRACE, "x", "all",
    "plaintext", "text", "bat", "dosbatch", "powershell", "ps1", "ignore",
    "gitignore", "shellscript", "sh", "zsh", "pip-requirements", "requirements",
    "python">>

RECURSIVE Index(_, _, _)
\* first position >= i of lexeme c in s, 0 if none
Index(s, c, i) ==
  IF i > Len(s) THEN 0 ELSE IF s[i] = c THEN i ELSE Index(s, c, i + 1)

RECURSIVE Before(_, _)
\* a total order on strings (lexicographic on the places in Alphabet)
Before(a, b) ==
  IF a = <<>> THEN b # <<>>
  ELSE IF b = <<>> THEN FALSE
  ELSE IF Head(a) = Head(b) THEN Before(Tail(a), Tail(b))
  ELSE Index(Alphabet, Head(a), 1) < Index(Alphabet, Head(b), 1)

RECURSIVE iterate_strings(_, _)
\* the members of a set of strings in the order the seed gives
iterate_strings(S, seed) ==
  IF S = {} THEN <<>>
  ELSE LET x == CHOOSE x \in S : \A y \in S \ {x} :
                   IF seed = "seed_a" THEN Before(x, y) ELSE Before(y, x)
       IN <<x>> \o iterate_strings(S \ {x}, seed)

RECURSIVE iterate_names(_, _)
\* the members of a set of file names in the order the seed gives
iterate_names(S, seed) ==
  IF S = {} THEN <<>>
  ELSE LET x == CHOOSE x \in S : \A y \in S \ {x} :
                   IF seed = "seed_a" THEN x < y ELSE y < x
       IN <<x>> \o iterate_names(S \ {x}, seed)

RECURSIVE split(_)
\* str.split(",")
split(s) ==
  LET i == Index(s, COMMA, 1)
  IN IF i = 0 THEN <<s>>
     ELSE <<SubSeq(s, 1, i - 1)>> \o split(SubSeq(s, i + 1, Len(s)))

RECURSIVE lstrip(_)
lstrip(s) == IF s # <<>> /\ IsSpace(Head(s)) THEN lstrip(Tail(s)) ELSE s
RECURSIVE rstrip(_)
rstrip(s) ==
  IF s # <<>> /\ IsSpace(s[Len(s)]) THEN rstrip(SubSeq(s, 1, Len(s) - 1)) ELSE s
\* str.strip()
strip(s) == rstrip(lstrip(s))

RECURSIVE join(_)
\* ",".join(parts)
join(parts) ==
  IF parts = <<>> THEN <<>>
  ELSE IF Len(parts) = 1 THEN parts[1]
  ELSE parts[1] \o <<COMMA>> \o join(Tail(parts))

RECURSIVE remove_spaces(_)
\* str.replace(" ", "")
remove_spaces(s) ==
  IF s = <<>> THEN <<>>
  ELSE IF Head(s) = SP THEN remove_spaces(Tail(s))
  ELSE <<Head(s)>> \o remove_spaces(Tail(s))

RECURSIVE Flatten(_)
\* the text of a file: its lines one after the other
Flatten(lines) ==
  IF lines = <<>> THEN <<>> ELSE Head(lines) \o Flatten(Tail(lines))

----------------------------------------------------------------------------
(* Scope translation *)
_convert_scope_from_vscode_to_nvim(scope) ==
  IF scope = <<"plaintext">> THEN <<"text">>
  ELSE IF scope = <<"bat">> THEN <<"dosbatch">>
  ELSE IF scope = <<"powershell">> THEN <<"ps1">>
  ELSE IF scope = <<"ignore">> THEN <<"gitignore">>
  ELSE IF scope = <<"shellscript">> THEN <<"sh", COMMA, "zsh">>
  ELSE IF scope = <<"pip-requirements">> THEN <<"requirements">>
  ELSE scope

----------------------------------------------------------------------------
(* The regular expressions of vscode_to_nvim *)

\* re.match(r"^\s+//[\s]+", line)
is_invalid(line) ==
  \E k \in 1..Len(line) :
     /\ \A j \in 1..k : IsSpace(line[j])
     /\ k + 2 <= Len(line)
     /\ line[k + 1] = CM
     /\ IsSpace(line[k + 2])

RECURSIVE SkipSpace(_, _)
\* \s* from position j: the first position that holds no whitespace
SkipSpace(line, j) ==
  IF j <= Len(line) /\ IsSpace(line[j]) THEN SkipSpace(line, j + 1) ELSE j

NoMatch == [ok |-> FALSE, open |-> 0, close |-> 0]

\* "scope":\s*"([^"]+)" matched at position i: the places of its two quotes
MatchScopeAt(line, i) ==
  IF i > Len(line) \/ line[i] # SCOPE_KEY THEN NoMatch
  ELSE LET j == SkipSpace(line, i + 1)
       IN IF j > Len(line) \/ line[j] # QUOTE THEN NoMatch
          ELSE LET k == Index(line, QUOTE, j + 1)
               IN IF k = 0 \/ k = j + 1 THEN NoMatch
                  ELSE [ok |-> TRUE, open |-> j, close |-> k]

RECURSIVE re_search(_, _)
\* re.search(r'"scope":\s*"([^"]+)"', line): the leftmost match
re_search(line, i) ==
  IF i > Len(line) THEN NoMatch
  ELSE LET m == MatchScopeAt(line, i)
       IN IF m.ok THEN m ELSE re_search(line, i + 1)

RECURSIVE re_sub(_, _, _)
\* re.sub(r'"scope":\s*"[^"]+"', repl, line): every match is replaced by repl
re_sub(line, i, repl) ==
  IF i > Len(line) THEN <<>>
  ELSE LET m == MatchScopeAt(line, i)
       IN IF m.ok THEN repl \o re_sub(line, m.close + 1, repl)
          ELSE <<line[i]>> \o re_sub(line, i + 1, repl)

\* [convert(scope.strip()) for scope in scopes_str.split(",")]
convert_scopes(scopes_str) ==
  LET parts == split(scopes_str)
  IN [p \in 1..Len(parts) |-> _convert_scope_from_vscode_to_nvim(strip(parts[p]))]

\* the body of "if not is_invalid" for one retained line
rewrite_line(line) ==
  LET m == re_search(line, 1)
  IN IF ~m.ok THEN line
     ELSE LET scopes == convert_scopes(SubSeq(line, m.open + 1, m.close - 1))
          IN re_sub(line, 1, <<SCOPE_KEY, SP, QUOTE>> \o join(scopes) \o <<QUOTE>>)

RECURSIVE valid_lines(_)
\* the loop over lines: comment lines are dropped, the others rewritten
valid_lines(lines) ==
  IF lines = <<>> THEN <<>>
  ELSE IF is_invalid(Head(lines)) THEN valid_lines(Tail(lines))
  ELSE <<rewrite_line(Head(lines))>> \o valid_lines(Tail(lines))

\* reading with errors="replace": no decoding error is ever raised
read_lines_replacing(f) ==
  IF ~Exists(f) THEN [exc |-> "FileNotFoundError", lines |-> <<>>]
  ELSE [exc |-> "none", lines |-> f.lines]

\* open(..., encoding="utf-8") and, on UnicodeDecodeError, encoding="cp932"
read_lines(f) ==
  IF ~Exists(f) THEN [exc |-> "FileNotFoundError", lines |-> <<>>]
  ELSE IF f.enc = "utf8" THEN [exc |-> "none", lines |-> f.lines]
  ELSE IF f.enc = "cp932" THEN [exc |-> "none", lines |-> f.lines]
  ELSE [exc |-> "UnicodeDecodeError", lines |-> <<>>]

\* open(..., "w", encoding="utf-8") and writelines
written(lines) == [enc |-> "utf8", lines |-> lines]

\* a copy that goes through the filter, as the other direction does
copy2_rewriting(f) == written(valid_lines(f.lines))

\* shutil.copy2: the bytes of the source file
copy2(f) == f

----------------------------------------------------------------------------
(* Reading a snippet file of the Neovim store as JSON *)

NoScope == [has_scope |-> FALSE, scope |-> <<>>]
JSONDecodeError == [exc |-> "JSONDecodeError", entries |-> <<>>]

RECURSIVE parse(_, _, _, _, _)
\* The JSON reader on the text s from position i.  LBRACE ... RBRACE is one
\* snippet entry, which may hold a "scope": "..." member; whitespace and
\* commas separate; a comment marker or a stray word is no JSON.
parse(s, i, open, cur, acc) ==
  IF i > Len(s) THEN (IF open THEN JSONDecodeError ELSE [exc |-> "none", entries |-> acc])
  ELSE IF IsSpace(s[i]) \/ s[i] = COMMA THEN parse(s, i + 1, open, cur, acc)
  ELSE IF ~open
       THEN (IF s[i] = LBRACE THEN parse(s, i + 1, TRUE, NoScope, acc)
             ELSE JSONDecodeError)
  ELSE IF s[i] = RBRACE THEN parse(s, i + 1, FALSE, NoScope, Append(acc, cur))
  ELSE IF s[i] = SCOPE_KEY
       THEN LET j == SkipSpace(s, i + 1)
                k == IF j <= Len(s) /\ s[j] = QUOTE THEN Index(s, QUOTE, j + 1) ELSE 0
            IN IF k = 0 THEN JSONDecodeError
               ELSE parse(s, k + 1, TRUE,
                          [has_scope |-> TRUE, scope |-> SubSeq(s, j + 1, k - 1)], acc)
  ELSE JSONDecodeError

\* the lenient reader a swallowed error would amount to
json_load_skipping(f) ==
  IF f.enc = "utf8" /\ parse(Flatten(f.lines), 1, FALSE, NoScope, <<>>).exc = "none"
  THEN parse(Flatten(f.lines), 1, FALSE, NoScope, <<>>)
  ELSE [exc |-> "none", entries |-> <<>>]

\* open(snippets_filepath, "r", encoding="utf-8") and json.load(fin)
json_load(f) ==
  IF f.enc # "utf8" THEN [exc |-> "UnicodeDecodeError", entries |-> <<>>]
  ELSE parse(Flatten(f.lines), 1, FALSE, NoScope, <<>>)

\* snippet.get("scope", "")
get_scope(snippet) == IF snippet.has_scope THEN snippet.scope ELSE <<>>

RECURSIVE collect_scopes(_)
\* the loop "for snippet in snippets_json.values(): ... scopes += snippet_scopes"
collect_scopes(entries) ==
  IF entries = <<>> THEN <<>>
  ELSE convert_scopes(get_scope(Head(entries))) \o collect_scopes(Tail(entries))

\* set(scopes)
scope_set(entries) ==
  LET scopes == collect_scopes(entries) IN {scopes[i] : i \in 1..Len(scopes)}

\* ",".join(<the set in the given order>).replace(" ", ""), "all" if empty
language_of(ordered) ==
  LET language == remove_spaces(join(ordered))
  IN IF language = <<>> THEN <<"all">> ELSE language

\* the entry of one snippet file: {"language": language, "path": path}
snippet_of(n, f, seed) ==
  [language |-> language_of(iterate_strings(scope_set(json_load(f).entries), seed)),
   path |-> <<"./", n>>]

\* the list "snippets", one entry per file of the Neovim store (kept as a set:
\* the order of the glob is not followed)
snippets_list(nv, seed) ==
  {snippet_of(n, nv[n], seed) : n \in {m \in Names : Exists(nv[m])}}

----------------------------------------------------------------------------
(* The inventory and the two passes *)

_SnippetFile(n, vs, nv) ==
  [name |-> n, exists_in_vscode |-> Exists(vs[n]), exists_in_nvim |-> Exists(nv[n])]

\* the list list_snippets_files returns: the union of the names, in the order
\* in which the set snippets_filenames is iterated
list_snippets_files(vs, nv, seed) ==
  LET snippets_filenames == {n \in Names : Exists(vs[n]) \/ Exists(nv[n])}
      p == iterate_names(snippets_filenames, seed)
  IN [i \in 1..Len(p) |-> _SnippetFile(p[i], vs, nv)]

\* the condition with its "not" lost
copies_to_vscode_both(snippets_file) ==
  snippets_file.exists_in_nvim /\ snippets_file.exists_in_vscode

\* the condition without the test of the VS Code side
copies_to_vscode_always(snippets_file) == snippets_file.exists_in_nvim

\* the condition of nvim_to_vscode
copies_to_vscode(snippets_file) ==
  snippets_file.exists_in_nvim /\ ~snippets_file.exists_in_vscode

\* the condition without the test of the Neovim side
copies_to_nvim_whenever(snippets_file, force_copy) ==
  force_copy \/ snippets_file.exists_in_vscode

\* the condition without force_copy
copies_to_nvim_unforced(snippets_file, force_copy) ==
  snippets_file.exists_in_vscode /\ ~snippets_file.exists_in_nvim

\* the condition of vscode_to_nvim
copies_to_nvim(snippets_file, force_copy) ==
  force_copy \/ (snippets_file.exists_in_vscode /\ ~snippets_file.exists_in_nvim)

RECURSIVE nvim_to_vscode(_, _, _, _)
\* the VS Code store after the loop of nvim_to_vscode from file i on
nvim_to_vscode(files, i, vs, nv) ==
  IF i > Len(files) THEN vs
  ELSE IF copies_to_vscode(files[i])
       THEN nvim_to_vscode(files, i + 1,
                           [vs EXCEPT ![files[i].name] = copy2(nv[files[i].name])], nv)
  ELSE nvim_to_vscode(files, i + 1, vs, nv)

NotRaised == [exc |-> "none", fn |-> "none", name |-> 0]

RECURSIVE vscode_to_nvim(_, _, _, _, _)
\* the Neovim store after the loop of vscode_to_nvim from file i on, and the
\* exception that ended the loop, if one did
vscode_to_nvim(files, i, force_copy, vs, nv) ==
  IF i > Len(files) THEN [nvim |-> nv, raised |-> NotRaised]
  ELSE IF copies_to_nvim(files[i], force_copy)
       THEN LET fin == read_lines(vs[files[i].name])
            IN IF fin.exc # "none"
               THEN [nvim |-> nv,
                     raised |-> [exc |-> fin.exc, fn |-> "vscode_to_nvim",
                                 name |-> files[i].name]]
               ELSE vscode_to_nvim(files, i + 1, force_copy, vs,
                      [nv EXCEPT ![files[i].name] = written(valid_lines(fin.lines))])
  ELSE vscode_to_nvim(files, i + 1, force_copy, vs, nv)

----------------------------------------------------------------------------
(* State *)
VARIABLES
  vscode,          \* <vscode_dirpath>/snippets: name -> file
  nvim,            \* <nvim_dirpath>/snippets: name -> file
  manifest,        \* <nvim_dirpath>/snippets/package.json
  force_vscode,    \* args.force_vscode
  snippets_files,  \* self.snippets_files
  pc,              \* the call of the __main__ block that comes next
  raised,          \* the exception that ended the run, if one did
  runs,            \* the number of the current invocation
  vscode0,         \* the VS Code store when the inventory was built
  nvim0,           \* the Neovim store when the inventory was built
  manifest0        \* package.json when the inventory was built

vars == <<vscode, nvim, manifest, force_vscode, snippets_files, pc, raised, runs,
          vscode0, nvim0, manifest0>>

NoManifest == [exists |-> FALSE, snippets |-> {}]
\* a package.json left by an earlier use of the store
OldManifest ==
  [exists |-> TRUE, snippets |-> {[language |-> <<"all">>, path |-> <<"./", 0>>]}]

Init ==
  /\ vscode \in [Names -> Files \cup {NoFile}]
  /\ nvim \in [Names -> Files \cup {NoFile}]
  /\ manifest \in {NoManifest, OldManifest}
  /\ force_vscode \in BOOLEAN
  /\ snippets_files = <<>>
  /\ pc = "SnippetsSync"
  /\ raised = NotRaised
  /\ runs = 1
  /\ vscode0 = vscode
  /\ nvim0 = nvim
  /\ manifest0 = manifest

\* syncer = SnippetsSync()
SnippetsSync ==
  /\ pc = "SnippetsSync"
  /\ \E seed \in HashSeeds :
        snippets_files' = list_snippets_files(vscode, nvim, seed)
  /\ vscode0' = vscode
  /\ nvim0' = nvim
  /\ manifest0' = manifest
  /\ pc' = "nvim_to_vscode"
  /\ UNCHANGED <<vscode, nvim, manifest, force_vscode, raised, runs>>

\* syncer.nvim_to_vscode()
NvimToVscode ==
  /\ pc = "nvim_to_vscode"
  /\ vscode' = nvim_to_vscode(snippets_files, 1, vscode, nvim)
  /\ pc' = "vscode_to_nvim"
  /\ UNCHANGED <<nvim, manifest, force_vscode, snippets_files, raised, runs,
                 vscode0, nvim0, manifest0>>

\* syncer.vscode_to_nvim(force_copy=args.force_vscode)
VscodeToNvim ==
  /\ pc = "vscode_to_nvim"
  /\ LET out == vscode_to_nvim(snippets_files, 1, force_vscode, vscode, nvim)
     IN /\ nvim' = out.nvim
        /\ raised' = out.raised
        /\ pc' = IF out.raised.exc = "none" THEN "create_package_json" ELSE "failed"
  /\ UNCHANGED <<vscode, manifest, force_vscode, snippets_files, runs,
                 vscode0, nvim0, manifest0>>

\* syncer.create_package_json()
CreatePackageJson ==
  /\ pc = "create_package_json"
  /\ LET broken == {n \in Names : Exists(nvim[n]) /\ json_load(nvim[n]).exc # "none"}
     IN IF broken # {}
        THEN /\ \E n \in broken :
                  raised' = [exc |-> json_load(nvim[n]).exc,
                             fn |-> "create_package_json", name |-> n]
             /\ pc' = "failed"
             /\ UNCHANGED manifest
        ELSE /\ \E seed \in HashSeeds :
                  manifest' = [exists |-> TRUE, snippets |-> snippets_list(nvim, seed)]
             /\ pc' = "done"
             /\ UNCHANGED raised
  /\ UNCHANGED <<vscode, nvim, force_vscode, snippets_files, runs,
                 vscode0, nvim0, manifest0>>

\* the program is invoked again, in the same mode, after a run that completed
Rerun ==
  /\ pc = "done"
  /\ runs < MaxRuns
  /\ runs' = runs + 1
  /\ pc' = "SnippetsSync"
  /\ UNCHANGED <<vscode, nvim, manifest, force_vscode, snippets_files, raised,
                 vscode0, nvim0, manifest0>>

Next == SnippetsSync \/ NvimToVscode \/ VscodeToNvim \/ CreatePackageJson \/ Rerun

Spec == Init /\ [][Next]_vars

----------------------------------------------------------------------------
(* Vocabulary of the properties *)

NamesIn(store) == {n \in Names : Exists(store[n])}
OnlyInNvim(n) == Exists(nvim0[n]) /\ ~Exists(vscode0[n])
OnlyInVscode(n) == Exists(vscode0[n]) /\ ~Exists(nvim0[n])

\* nvim_to_vscode has returned in the current run
AfterNvimToVscode == pc \in {"vscode_to_nvim", "create_package_json", "done", "failed"}
\* vscode_to_nvim has returned without raising in the current run
AfterVscodeToNvim ==
  \/ pc \in {"create_package_json", "done"}
  \/ pc = "failed" /\ raised.fn = "create_package_json"

\* what vscode_to_nvim writes for a VS Code file
Rewritten(f) == written(valid_lines(f.lines))

\* the text is UTF-8 and JSON
WellFormed(f) ==
  f.enc = "utf8" /\ parse(Flatten(f.lines), 1, FALSE, NoScope, <<>>).exc = "none"

\* the place of a name in the inventory
Place(n) == CHOOSE i \in 1..Len(snippets_files) : snippets_files[i].name = n

Range(s) == {s[i] : i \in 1..Len(s)}

----------------------------------------------------------------------------
\* C1: in a default-mode run, once the Neovim-to-VS Code pass has run, every
\* file that was only in the Neovim store when the inventory was built is in
\* the VS Code store with the very bytes it had in the Neovim store.
C1_NvimOnlyCopiedVerbatim ==
  (~force_vscode /\ AfterNvimToVscode) =>
     \A n \in Names : OnlyInNvim(n) => vscode[n] = nvim0[n]

C1_Witness ==
  /\ ~force_vscode /\ pc = "done"
  /\ \E n \in Names : OnlyInNvim(n) /\ vscode[n] = nvim0[n] /\ vscode[n] # Rewritten(nvim0[n])

\* C3: in a default-mode run no file that was in a store when the inventory
\* was built ever changes in that store.
C3_DefaultNeverOverwrites ==
  ~force_vscode =>
     \A n \in Names : /\ Exists(vscode0[n]) => vscode[n] = vscode0[n]
                      /\ Exists(nvim0[n]) => nvim[n] = nvim0[n]

C3_Witness ==
  /\ ~force_vscode /\ pc = "done"
  /\ \E n \in Names : /\ Exists(vscode0[n]) /\ Exists(nvim0[n])
                      /\ nvim0[n] # Rewritten(vscode0[n])
                      /\ nvim[n] = nvim0[n] /\ vscode[n] = vscode0[n]
  /\ \E m \in Names : OnlyInVscode(m) /\ Exists(nvim[m])
  /\ manifest # manifest0

\* C4: in a force-mode run, once the VS Code-to-Neovim pass has completed,
\* every file of the VS Code store is in the Neovim store as the filtered and
\* rewritten form of the VS Code content, whatever the Neovim store held.
C4_ForceOverwrites ==
  (force_vscode /\ AfterVscodeToNvim) =>
     \A n \in Names : Exists(vscode[n]) => nvim[n] = Rewritten(vscode[n])

C4_Witness ==
  /\ force_vscode /\ pc = "done"
  /\ \E n \in Names : /\ Exists(vscode0[n]) /\ Exists(nvim0[n])
                      /\ nvim0[n] # Rewritten(vscode0[n])
                      /\ nvim[n] = Rewritten(vscode0[n])

\* C9: no step removes a file name from either store, and when a run has
\* completed both stores hold the same names: the union of the names the two
\* stores held when the inventory was built.
C9_FileSetsConverge ==
  /\ NamesIn(vscode0) \subseteq NamesIn(vscode)
  /\ NamesIn(nvim0) \subseteq NamesIn(nvim)
  /\ pc = "done" =>
        /\ NamesIn(vscode) = NamesIn(vscode0) \cup NamesIn(nvim0)
        /\ NamesIn(nvim) = NamesIn(vscode0) \cup NamesIn(nvim0)

C9_Witness ==
  /\ pc = "done" /\ runs = 1
  /\ \E n, m \in Names : OnlyInVscode(n) /\ OnlyInNvim(m)
  /\ NamesIn(vscode) = NamesIn(nvim)

\* C7: when vscode_to_nvim meets a VS Code file that decodes under neither
\* encoding the run ends there: the file and the files after it in the
\* inventory are not written to the Neovim store, package.json is not built,
\* and what was copied before stays copied; and the pass never completes when
\* a file it has to read is undecodable.
C7_DecodeFailureIsFatal ==
  /\ (pc = "failed" /\ raised.fn = "vscode_to_nvim") =>
        /\ raised.exc = "UnicodeDecodeError"
        /\ vscode[raised.name].enc = "bad"
        /\ manifest = manifest0
        /\ \A i \in 1..Len(snippets_files) :
              LET f == snippets_files[i] IN
              IF i < Place(raised.name) /\ copies_to_nvim(f, force_vscode)
              THEN nvim[f.name] = Rewritten(vscode[f.name])
              ELSE nvim[f.name] = nvim0[f.name]
        /\ \A n \in Names : OnlyInNvim(n) => vscode[n] = nvim0[n]
  /\ AfterVscodeToNvim =>
        \A i \in 1..Len(snippets_files) :
           copies_to_nvim(snippets_files[i], force_vscode)
              => vscode[snippets_files[i].name].enc # "bad"

C7_Witness ==
  /\ pc = "failed" /\ raised.fn = "vscode_to_nvim"
  /\ \E i \in 1..Len(snippets_files) :
        /\ i < Place(raised.name)
        /\ nvim[snippets_files[i].name] # nvim0[snippets_files[i].name]
  /\ \E n \in Names : OnlyInNvim(n) /\ vscode[n] = nvim0[n]

\* C8: when a file of the Neovim store is not UTF-8 or not JSON,
\* create_package_json raises, and package.json keeps the content it had; a
\* run completes only if every file of the Neovim store could be loaded.
C8_MalformedFileIsFatal ==
  /\ (pc = "failed" /\ raised.fn = "create_package_json") =>
        /\ manifest = manifest0
        /\ Exists(nvim[raised.name]) /\ ~WellFormed(nvim[raised.name])
        /\ raised.exc \in {"JSONDecodeError", "UnicodeDecodeError"}
  /\ pc = "done" => \A n \in Names : Exists(nvim[n]) => WellFormed(nvim[n])

C8_Witness ==
  /\ pc = "failed" /\ raised.fn = "create_package_json"
  /\ raised.exc = "JSONDecodeError"
  /\ manifest0.exists /\ manifest = manifest0
  /\ \E n \in Names : nvim[n] # nvim0[n]

----------------------------------------------------------------------------
(* Idempotence *)

\* how many parts of the comma-separated string l are t
Occurrences(l, t) == Cardinality({i \in 1..Len(split(l)) : split(l)[i] = t})

\* two language strings list the same tokens, each as many times
SameTokens(a, b) ==
  /\ Len(split(a)) = Len(split(b))
  /\ \A t \in Range(split(a)) \cup Range(split(b)) : Occurrences(a, t) = Occurrences(b, t)

\* C5 as stated: a second run in the same mode changes no snippet file and
\* writes a manifest with the same entries, the same path and language values.
C5_SecondRunSameManifest ==
  (runs >= 2 /\ pc = "done") =>
     /\ vscode = vscode0
     /\ nvim = nvim0
     /\ manifest.snippets = manifest0.snippets

\* C5 amended: a second run in the same mode changes no snippet file, and its
\* manifest has the same paths as the first run's, each with a language that
\* lists the same comma-separated tokens, possibly in another order.
C5_SecondRunSameUpToOrder ==
  (runs >= 2 /\ pc = "done") =>
     /\ vscode = vscode0
     /\ nvim = nvim0
     /\ manifest.exists /\ manifest0.exists
     /\ {e.path : e \in manifest.snippets} = {e.path : e \in manifest0.snippets}
     /\ Cardinality(manifest.snippets) = Cardinality(manifest0.snippets)
     /\ \A e \in manifest.snippets : \A e0 \in manifest0.snippets :
           e.path = e0.path => SameTokens(e.language, e0.language)

C5_Witness ==
  /\ runs = 2 /\ pc = "done" /\ force_vscode
  /\ NamesIn(nvim) = Names
  /\ manifest.snippets # manifest0.snippets

----------------------------------------------------------------------------
(* The filter as the specification states it *)

\* a line that holds nothing but a // comment
IsCommentOnly(line) ==
  LET j == SkipSpace(line, 1) IN j <= Len(line) /\ line[j] = CM

RECURSIVE translate_declarations(_, _)
\* every "scope": "..." declaration of the line with its own tokens translated
translate_declarations(line, i) ==
  IF i > Len(line) THEN <<>>
  ELSE LET m == MatchScopeAt(line, i)
       IN IF m.ok
          THEN <<SCOPE_KEY, SP, QUOTE>>
                 \o join(convert_scopes(SubSeq(line, m.open + 1, m.close - 1)))
                 \o <<QUOTE>> \o translate_declarations(line, m.close + 1)
          ELSE <<line[i]>> \o translate_declarations(line, i + 1)

RECURSIVE expected_lines(_)
expected_lines(lines) ==
  IF lines = <<>> THEN <<>>
  ELSE IF IsCommentOnly(Head(lines)) THEN expected_lines(Tail(lines))
  ELSE <<translate_declarations(Head(lines), 1)>> \o expected_lines(Tail(lines))

\* C2: in a default-mode run, once the VS Code-to-Neovim pass has completed,
\* every file that was only in the VS Code store is in the Neovim store, and
\* its lines are the VS Code lines without the comment-only lines, with every
\* scope declaration translated and the other lines as they were.
C2_VscodeOnlyFilteredAndTranslated ==
  (~force_vscode /\ AfterVscodeToNvim) =>
     \A n \in Names : OnlyInVscode(n) =>
        /\ Exists(nvim[n])
        /\ nvim[n].lines = expected_lines(vscode0[n].lines)

----------------------------------------------------------------------------
(* The manifest as the specification states it *)

\* the translated scope tokens the entries of a file declare
declared_tokens(f) ==
  LET scopes == collect_scopes(parse(Flatten(f.lines), 1, FALSE, NoScope, <<>>).entries)
  IN Range(split(join(scopes))) \ {<<>>}

\* l is the tokens of T, each once, joined by commas, or "all" if T is empty
IsLanguageOf(l, T) ==
  IF T = {} THEN l = <<"all">>
  ELSE Len(split(l)) = Cardinality(T) /\ Range(split(l)) = T

\* C6: when a run has completed, every file of the Neovim store has exactly
\* one manifest entry, with path ./<name> and with the language made of the
\* translated scope tokens its entries declare, each token once and none
\* empty, or "all" if there is none.
C6_ManifestComplete ==
  pc = "done" =>
     \A n \in Names : Exists(nvim[n]) =>
        LET es == {e \in manifest.snippets : e.path = <<"./", n>>}
        IN /\ Cardinality(es) = 1
           /\ \A e \in es : IsLanguageOf(e.language, declared_tokens(nvim[n]))

----------------------------------------------------------------------------
(* Force mode over the inventory of the start of the run *)

HasCommentOnly(lines) == \E i \in 1..Len(lines) : IsCommentOnly(lines[i])

\* some scope declaration of the lines holds a token the table translates
HasTranslatable(lines) ==
  \E i \in 1..Len(lines) : \E j \in 1..Len(lines[i]) :
     LET m == MatchScopeAt(lines[i], j)
         parts == split(SubSeq(lines[i], m.open + 1, m.close - 1))
     IN m.ok /\ \E p \in 1..Len(parts) :
                  _convert_scope_from_vscode_to_nvim(strip(parts[p])) # strip(parts[p])

\* C10: in a force-mode run a file that was only in the Neovim store is copied
\* as it is to the VS Code store and then rewritten from there: the pass never
\* reads a missing file, the VS Code store keeps the original bytes, and the
\* Neovim store ends with the filtered and rewritten form of the original,
\* which differs from the original whenever that holds a comment-only line or
\* a scope token the table translates.
C10_ForceRewritesNvimOnlyFiles ==
  /\ raised.exc # "FileNotFoundError"
  /\ (force_vscode /\ AfterNvimToVscode) =>
        \A n \in Names : OnlyInNvim(n) => vscode[n] = nvim0[n]
  /\ (force_vscode /\ AfterVscodeToNvim) =>
        \A n \in Names : OnlyInNvim(n) =>
           /\ nvim[n] = Rewritten(nvim0[n])
           /\ (HasCommentOnly(nvim0[n].lines) \/ HasTranslatable(nvim0[n].lines))
                 => nvim[n].lines # nvim0[n].lines

====
